---- MODULE Spec2Model ----
(***************************************************************************)
(* A model of MathH (include/MathH/MathH.h): the dense matrix Matrix<T>    *)
(* over a flat row-major buffer, and MathHClass<T>::multiply.              *)
(*                                                                         *)
(* T is instantiated with an integer type.  Every element the model        *)
(* builds is a small natural number, so the int product A(i,k)*B(k,j),     *)
(* the double accumulator `sum` and the narrowing assignment C(i,j) = sum  *)
(* are all exact: the values are far below 2^31 and 2^53.                  *)
(*                                                                         *)
(* A program is a set of named Matrix objects (the heap), each declared    *)
(* once, and a sequence of calls on them.  `last` records the most recent  *)
(* call: its arguments, how it ended and what it returned.                 *)
(***************************************************************************)
EXTENDS Integers, Sequences, FiniteSets, TLC

VARIABLES heap, last

vars == <<heap, last>>

\* Largest row / column count and index the calls are made with.
MaxDim == 2
\* Largest number of rows of a nested literal.
MaxRows == 3
\* Largest number of elements of a constructed matrix or an input literal.
MaxLen == 4
\* Largest element value handed to a constructor or to set.
MaxVal == 1

Slots == {"A", "B"}
Dims == 0 .. MaxDim
Elem == 0 .. MaxVal

(***************************************************************************)
(* The two failures of the code: std::runtime_error with one of two        *)
(* messages.  The names are the specification's for them.                  *)
(***************************************************************************)
InconsistentShape == "Inconsistent row length"
DimensionMismatch == "Matrix dimensions are not compatible for multiplication"

\* A slot whose object does not exist (not declared, or its constructor threw).
NoMatrix == [live |-> FALSE, rows_ |-> 0, cols_ |-> 0, data_ |-> << >>]

\* std::vector<T>(n, 0.0) and the value-initialising resize(n): n zeros.
Zeros(n) == [x \in 1 .. n |-> 0]

\* Faulty variant of Index: the row stride is lost, so (0, 1) and (1, 0) collide.
IndexCollide(r, c, cols) == r + c
\* r * cols_ + c, the offset both operator() overloads compute.
Index(r, c, cols) == r * cols + c

\* data_[off] = v for an offset inside the buffer (0-based, as in the code).
Store(data, off, v) == [data EXCEPT ![off + 1] = v]

\* data_[off] for an offset inside the buffer.
Load(data, off) == data[off + 1]

\* T operator()(r, c) const, and the read through T &operator()(r, c), for an
\* offset inside the buffer.
ReadAt(m, r, c) == Load(m.data_, Index(r, c, m.cols_))

\* Matrix(rows, cols): no check of either dimension.
MatrixDims(rows, cols) ==
    [live |-> TRUE, rows_ |-> rows, cols_ |-> cols, data_ |-> Zeros(rows * cols)]

(***************************************************************************)
(* Matrix(std::initializer_list<std::initializer_list<T>> values)          *)
(***************************************************************************)

\* The values cols_ = values.begin()->size() can take.  For an empty outer
\* list begin() == end() and the read is undefined: any value, or no return
\* at all (the abort is an outcome of the ConstructList action).
FirstRowSize(vals) == IF Len(vals) > 0 THEN {Len(vals[1])} ELSE Dims

\* Faulty variant of RowOk: only a row longer than the first is rejected.
RowOkOrShorter(row, cols) == Len(row) <= cols
\* The negation of the test `row.size() != cols_`.
RowOk(row, cols) == Len(row) = cols

\* Faulty variant of FillRow: the copy stops one value short of the row's end.
RECURSIVE FillRowDropLast(_, _, _, _)
FillRowDropLast(row, n, data, i) ==
    IF n >= Len(row)
    THEN [data_ |-> data, i |-> i]
    ELSE FillRowDropLast(row, n + 1, Store(data, i, row[n]), i + 1)
\* for (auto &val : row) data_[i++] = val;   from the n-th value of the row on.
RECURSIVE FillRow(_, _, _, _)
FillRow(row, n, data, i) ==
    IF n > Len(row)
    THEN [data_ |-> data, i |-> i]
    ELSE FillRow(row, n + 1, Store(data, i, row[n]), i + 1)

\* for (auto &row : values) { if (row.size() != cols_) throw ...; copy the row }
\* from the n-th row on.  st is the constructor's state: the buffer, the
\* running index i, and whether the throw was reached.
RECURSIVE FillRows(_, _, _, _)
FillRows(vals, n, cols, st) ==
    IF n > Len(vals)
    THEN st
    ELSE IF ~RowOk(vals[n], cols)
    THEN [st EXCEPT !.thrown = TRUE]
    ELSE LET f == FillRow(vals[n], 1, st.data_, st.i)
         IN  FillRows(vals, n + 1, cols,
                      [data_ |-> f.data_, i |-> f.i, thrown |-> FALSE])

\* The whole constructor, given the value read into cols_.  obj is the object
\* as the constructor left it: complete, or partly filled when it threw.
MatrixList(vals, cols) ==
    LET rows == Len(vals)
        fin  == FillRows(vals, 1, cols,
                         [data_ |-> Zeros(rows * cols), i |-> 0, thrown |-> FALSE])
    IN  [thrown |-> fin.thrown,
         obj    |-> [live |-> TRUE, rows_ |-> rows, cols_ |-> cols,
                     data_ |-> fin.data_]]

(***************************************************************************)
(* MathHClass<T>::multiply(Matrix<T> &A, Matrix<T> &B)                     *)
(***************************************************************************)

\* Faulty variant of DimsMismatch: an A with too few columns is let through.
DimsMismatchGreater(A, B) == A.cols_ > B.rows_
\* if (A.cols() != B.rows()) throw ...
DimsMismatch(A, B) == A.cols_ # B.rows_

\* Faulty variant of Accumulate: = in place of +=.
AccumulateOverwrite(sum, x, y) == x * y
\* sum += A(i, k) * B(k, j);   The int product widens to double and adds to
\* the double sum; both are exact for the values the model builds.
Accumulate(sum, x, y) == sum + x * y

\* Faulty variant of InnerLoop: the term k = 0 is left out.
RECURSIVE InnerLoopSkipFirst(_, _, _, _, _, _)
InnerLoopSkipFirst(A, B, i, j, k, sum) ==
    IF k < A.cols_
    THEN InnerLoopSkipFirst(A, B, i, j, k + 1,
             IF k = 0 THEN sum
             ELSE Accumulate(sum, ReadAt(A, i, k), ReadAt(B, k, j)))
    ELSE sum
\* for (size_t k = 0; k < A.cols(); ++k) sum += ...;   from k on.
RECURSIVE InnerLoop(_, _, _, _, _, _)
InnerLoop(A, B, i, j, k, sum) ==
    IF k < A.cols_
    THEN InnerLoop(A, B, i, j, k + 1,
                   Accumulate(sum, ReadAt(A, i, k), ReadAt(B, k, j)))
    ELSE sum

\* Faulty variant of StoreResult: the sum is also written through the
\* non-const reference A.
StoreResultInA(st, i, j, sum) ==
    [st EXCEPT !.C.data_ = Store(@, Index(i, j, st.C.cols_), sum),
               !.A.data_ = IF Index(i, j, st.A.cols_) < Len(@)
                           THEN Store(@, Index(i, j, st.A.cols_), sum) ELSE @]
\* C(i, j) = sum;   st holds the three objects the call can reach: the
\* operands A and B (passed by non-const reference) and the local C.  The
\* double narrows to T, exactly for the values the model builds.
StoreResult(st, i, j, sum) ==
    [st EXCEPT !.C.data_ = Store(@, Index(i, j, st.C.cols_), sum)]

\* for (size_t j = 0; j < B.cols(); ++j) { double sum = 0.0; ...; C(i,j) = sum; }
RECURSIVE ColLoop(_, _, _)
ColLoop(st, i, j) ==
    IF j < st.B.cols_
    THEN ColLoop(StoreResult(st, i, j, InnerLoop(st.A, st.B, i, j, 0, 0)), i, j + 1)
    ELSE st

\* for (size_t i = 0; i < A.rows(); ++i) ...
RECURSIVE RowLoop(_, _)
RowLoop(st, i) ==
    IF i < st.A.rows_
    THEN RowLoop(ColLoop(st, i, 0), i + 1)
    ELSE st

\* The whole call.  C is NoMatrix when the call threw: the throw precedes the
\* construction of C.
MultiplyCall(A, B) ==
    IF DimsMismatch(A, B)
    THEN [thrown |-> TRUE, A |-> A, B |-> B, C |-> NoMatrix]
    ELSE LET st == RowLoop([A |-> A, B |-> B,
                            C |-> MatrixDims(A.rows_, B.cols_)], 0)
         IN  [thrown |-> FALSE, A |-> st.A, B |-> st.B, C |-> st.C]

(***************************************************************************)
(* The program state and the calls                                         *)
(***************************************************************************)

\* The record of a call, before its fields are filled in.
NoCall ==
    [op |-> "none", a |-> "-", b |-> "-", r |-> 0, c |-> 0, v |-> 0,
     vals |-> << >>, outcome |-> "ok", what |-> "", ret |-> 0,
     result |-> NoMatrix]

\* The program runs until a call does not return: the library catches no
\* exception, so a throw ends the program as an abort (a fault on an
\* out-of-buffer access) does.
Running == last.outcome = "ok"

\* Every matrix value a constructor can build within the bounds.
Shapes == {p \in Dims \X Dims : p[1] * p[2] <= MaxLen}
Matrices ==
    UNION {{[live |-> TRUE, rows_ |-> p[1], cols_ |-> p[2], data_ |-> d] :
                d \in [1 .. p[1] * p[2] -> Elem]} : p \in Shapes}

\* Every nested literal handed to the list constructor within the bounds:
\* at most MaxRows rows, each of at most MaxDim values, MaxLen values in all.
RECURSIVE Total(_)
Total(vals) == IF vals = << >> THEN 0 ELSE Len(Head(vals)) + Total(Tail(vals))
RowLiterals == UNION {[1 .. n -> Elem] : n \in Dims}
RECURSIVE LiteralsOf(_)
LiteralsOf(m) ==
    IF m = 0
    THEN {<< >>}
    ELSE {Append(p[1], p[2]) :
            p \in {q \in LiteralsOf(m - 1) \X RowLiterals :
                      Total(q[1]) + Len(q[2]) <= MaxLen}}
Literals == UNION {LiteralsOf(m) : m \in 0 .. MaxRows}
\* Those of at most MaxDim rows, which build matrices of the shapes in Shapes.
ShortLiterals == UNION {LiteralsOf(m) : m \in Dims}

Init ==
    /\ heap = [s \in Slots |-> NoMatrix]
    /\ last = NoCall

\* Matrix<T> s(rows, cols);
Construct(s, rows, cols) ==
    /\ Running
    /\ ~heap[s].live
    /\ rows * cols <= MaxLen
    /\ heap' = [heap EXCEPT ![s] = MatrixDims(rows, cols)]
    /\ last' = [NoCall EXCEPT !.op = "construct", !.a = s, !.r = rows, !.c = cols,
                              !.result = MatrixDims(rows, cols)]

\* Matrix<T> s = vals;   A constructor that throws leaves no object behind.
ConstructList(s, vals) ==
    /\ Running
    /\ ~heap[s].live
    /\ \/ \E cols \in FirstRowSize(vals) :
            LET res == MatrixList(vals, cols)
            IN  /\ heap' = IF res.thrown THEN heap ELSE [heap EXCEPT ![s] = res.obj]
                /\ last' = [NoCall EXCEPT
                              !.op = "list", !.a = s, !.vals = vals,
                              !.outcome = IF res.thrown THEN "throw" ELSE "ok",
                              !.what = IF res.thrown THEN InconsistentShape ELSE "",
                              !.result = IF res.thrown THEN NoMatrix ELSE res.obj]
       \/ /\ Len(vals) = 0
          /\ heap' = heap
          /\ last' = [NoCall EXCEPT !.op = "list", !.a = s, !.vals = vals,
                                    !.outcome = "abort"]

\* s(r, c) read through the const overload.  An offset outside the buffer is
\* undefined: the read faults, or yields whatever lies there.
Get(s, r, c) ==
    /\ Running
    /\ heap[s].live
    /\ heap' = heap
    /\ LET call == [NoCall EXCEPT !.op = "get", !.a = s, !.r = r, !.c = c]
           inside == Index(r, c, heap[s].cols_) < Len(heap[s].data_)
       IN  \/ /\ inside
              /\ last' = [call EXCEPT !.ret = ReadAt(heap[s], r, c)]
           \/ /\ ~inside
              /\ \E g \in Elem : last' = [call EXCEPT !.ret = g]
           \/ /\ ~inside
              /\ last' = [call EXCEPT !.outcome = "abort"]

\* s(r, c) = v through the non-const overload.  An offset outside the buffer
\* is undefined: the write faults, lands in memory no matrix owns, or lands
\* in the buffer of another matrix.
Set(s, r, c, v) ==
    /\ Running
    /\ heap[s].live
    /\ LET call == [NoCall EXCEPT !.op = "set", !.a = s, !.r = r, !.c = c, !.v = v]
           off == Index(r, c, heap[s].cols_)
           inside == off < Len(heap[s].data_)
       IN  \/ /\ inside
              /\ heap' = [heap EXCEPT ![s].data_ = Store(@, off, v)]
              /\ last' = call
           \/ /\ ~inside
              /\ heap' = heap
              /\ last' = call
           \/ /\ ~inside
              /\ \E t \in Slots \ {s} :
                   \E k \in 0 .. Len(heap[t].data_) - 1 :
                     heap' = [heap EXCEPT ![t].data_ = Store(@, k, v)]
              /\ last' = call
           \/ /\ ~inside
              /\ heap' = heap
              /\ last' = [call EXCEPT !.outcome = "abort"]

\* MathHClass<T>().multiply(a, b); the returned matrix is last.result.
Multiply(a, b) ==
    /\ Running
    /\ heap[a].live
    /\ heap[b].live
    /\ LET res == MultiplyCall(heap[a], heap[b])
       IN  /\ heap' = [heap EXCEPT ![a] = res.A, ![b] = IF a = b THEN res.A ELSE res.B]
           /\ last' = [NoCall EXCEPT
                         !.op = "multiply", !.a = a, !.b = b,
                         !.outcome = IF res.thrown THEN "throw" ELSE "ok",
                         !.what = IF res.thrown THEN DimensionMismatch ELSE "",
                         !.result = res.C]

Next ==
    \/ \E s \in Slots, rows \in Dims, cols \in Dims : Construct(s, rows, cols)
    \/ \E s \in Slots, vals \in ShortLiterals : ConstructList(s, vals)
    \/ \E s \in Slots, r \in Dims, c \in Dims : Get(s, r, c)
    \/ \E s \in Slots, r \in Dims, c \in Dims, v \in Elem : Set(s, r, c, v)
    \/ \E a \in Slots, b \in Slots : Multiply(a, b)

Spec == Init /\ [][Next]_vars

\* One constructor call in a fresh program, then reads of what it built.
NextCtor ==
    \/ /\ last.op = "none"
       /\ \E rows \in Dims, cols \in Dims : Construct("A", rows, cols)
    \/ /\ last.op = "none"
       /\ \E vals \in Literals : ConstructList("A", vals)
    \/ \E r \in Dims, c \in Dims : Get("A", r, c)

SpecCtor == Init /\ [][NextCtor]_vars

\* Element access on a matrix already built: A is any matrix, B a 1x1 matrix
\* that lives beside it.
InitAccess ==
    /\ heap \in {h \in [Slots -> Matrices \cup {MatrixDims(1, 1)}] :
                    h["B"] = MatrixDims(1, 1)}
    /\ last = NoCall

NextAccess ==
    \/ \E r \in Dims, c \in Dims : Get("A", r, c)
    \/ \E r \in Dims, c \in Dims, v \in Elem : Set("A", r, c, v)

SpecAccess == InitAccess /\ [][NextAccess]_vars

\* multiply on any two matrices already built.
InitMul ==
    /\ heap \in [Slots -> Matrices]
    /\ last = NoCall

NextMul == \E a \in Slots, b \in Slots : Multiply(a, b)

SpecMul == InitMul /\ [][NextMul]_vars

(***************************************************************************)
(* The claims                                                              *)
(***************************************************************************)

\* Element (r, c) of a matrix value: the one at linear index r*cols + c.
ElemAt(m, r, c) == m.data_[r * m.cols_ + c + 1]

\* r < rows and c < cols.
InRange(m, r, c) == r < m.rows_ /\ c < m.cols_

\* f[0] + ... + f[n-1]
RECURSIVE SumTo(_, _)
SumTo(f, n) == IF n = 0 THEN 0 ELSE SumTo(f, n - 1) + f[n - 1]

\* The (i, j) entry of the product of two matrix values.
ProductEntry(A, B, i, j) ==
    SumTo([k \in 0 .. A.cols_ - 1 |-> ElemAt(A, i, k) * ElemAt(B, k, j)], A.cols_)

\* Equal dimensions and equal elements.
SameMatrix(M, N) ==
    /\ M.rows_ = N.rows_
    /\ M.cols_ = N.cols_
    /\ \A r \in 0 .. N.rows_ - 1, c \in 0 .. N.cols_ - 1 : ElemAt(M, r, c) = ElemAt(N, r, c)

\* A square matrix with ones on the diagonal and zeros elsewhere.
IsIdentity(m) ==
    /\ m.rows_ = m.cols_
    /\ \A r \in 0 .. m.rows_ - 1, c \in 0 .. m.cols_ - 1 :
         ElemAt(m, r, c) = IF r = c THEN 1 ELSE 0

Mat22(a, b, c, d) == [live |-> TRUE, rows_ |-> 2, cols_ |-> 2, data_ |-> <<a, b, c, d>>]

\* C1: multiply(A, B) with A.cols() == B.rows() returns C of A.rows() rows and
\* B.cols() columns with C(i,j) = sum over k of A(i,k) * B(k,j); and
\* [[1,2],[3,4]] * [[5,6],[7,8]] = [[19,22],[43,50]].
C1_MultiplyProduct ==
    /\ (last.op = "multiply" /\ heap[last.a].cols_ = heap[last.b].rows_) =>
         LET A == heap[last.a]
             B == heap[last.b]
             C == last.result
         IN  /\ last.outcome = "ok"
             /\ C.live
             /\ C.rows_ = A.rows_
             /\ C.cols_ = B.cols_
             /\ Len(C.data_) = A.rows_ * B.cols_
             /\ \A i \in 0 .. A.rows_ - 1, j \in 0 .. B.cols_ - 1 :
                  ElemAt(C, i, j) = ProductEntry(A, B, i, j)
    /\ LET ex == MultiplyCall(Mat22(1, 2, 3, 4), Mat22(5, 6, 7, 8))
       IN  ~ex.thrown /\ ex.C = Mat22(19, 22, 43, 50)

\* A 2x2 product one of whose entries sums two non-zero terms.
C1_Witness ==
    /\ last.op = "multiply"
    /\ last.outcome = "ok"
    /\ heap[last.a].cols_ = 2
    /\ last.result.rows_ = 2
    /\ last.result.cols_ = 2
    /\ \E x \in 1 .. 4 : last.result.data_[x] = 2

\* C2: multiply(A, B) with A.cols() != B.rows() fails with DimensionMismatch,
\* before a result matrix exists, and returns no matrix.
C2_DimensionMismatch ==
    (last.op = "multiply" /\ heap[last.a].cols_ # heap[last.b].rows_) =>
        /\ last.outcome = "throw"
        /\ last.what = DimensionMismatch
        /\ last.result = NoMatrix

\* A 2x2 matrix multiplied with one of a single row.
C2_Witness ==
    /\ last.op = "multiply"
    /\ last.outcome = "throw"
    /\ heap[last.a].rows_ = 2
    /\ heap[last.a].cols_ = 2
    /\ heap[last.b].rows_ = 1

\* The two failures the specification names and the code never raises.
InvalidDimension == "InvalidDimension"
IndexOutOfRange == "IndexOutOfRange"

\* C3: get(r, c) and set(r, c, value) fail with IndexOutOfRange whenever
\* r >= rows or c >= cols.
C3_IndexOutOfRange ==
    (last.op \in {"get", "set"} /\ ~InRange(heap[last.a], last.r, last.c)) =>
        /\ last.outcome = "throw"
        /\ last.what = IndexOutOfRange

\* C4: construct(rows, cols) fails with InvalidDimension whenever rows == 0 or
\* cols == 0, and builds no matrix with a zero dimension.
C4_InvalidDimension ==
    (last.op = "construct" /\ (last.r = 0 \/ last.c = 0)) =>
        /\ last.outcome = "throw"
        /\ last.what = InvalidDimension
        /\ ~heap[last.a].live

\* Some row of the literal is not as long as its first row.
Ragged(vals) == \E n \in 1 .. Len(vals) : Len(vals[n]) # Len(vals[1])

\* C5: construction from a nested literal fails with InconsistentShape whenever
\* some row's length differs from the first row's, and then no matrix is
\* returned to the caller.
C5_InconsistentShape ==
    (last.op = "list" /\ Ragged(last.vals)) =>
        /\ last.outcome = "throw"
        /\ last.what = InconsistentShape
        /\ last.result = NoMatrix
        /\ ~heap[last.a].live

\* The construction threw on a third row longer than the first two.
C5_Witness ==
    /\ last.op = "list"
    /\ last.outcome = "throw"
    /\ Len(last.vals) = 3
    /\ Len(last.vals[1]) = 1
    /\ Len(last.vals[2]) = 1
    /\ Len(last.vals[3]) = 2

\* C6: a nested literal of m rows, all of length n, builds a matrix with
\* rows() == m, cols() == n and get(r, c) the c-th value of the r-th row, held
\* at linear index r*cols + c.
C6_RowMajorLiteral ==
    (last.op = "list" /\ Len(last.vals) >= 1 /\ ~Ragged(last.vals)) =>
        LET m == Len(last.vals)
            n == Len(last.vals[1])
            M == heap[last.a]
        IN  /\ last.outcome = "ok"
            /\ M.live
            /\ last.result = M
            /\ M.rows_ = m
            /\ M.cols_ = n
            /\ Len(M.data_) = m * n
            /\ \A r \in 0 .. m - 1, c \in 0 .. n - 1 :
                 /\ ReadAt(M, r, c) = last.vals[r + 1][c + 1]
                 /\ M.data_[r * n + c + 1] = last.vals[r + 1][c + 1]

\* The literal {{0, 1}, {1, 1}} was built.
C6_Witness ==
    /\ last.op = "list"
    /\ last.outcome = "ok"
    /\ last.vals = << <<0, 1>>, <<1, 1>> >>
    /\ heap[last.a].live

\* C7: every matrix's buffer length is rows*cols, its rows and cols never
\* change, and a set on one matrix never changes an element of another.
C7_NoAliasing ==
    /\ [](\A s \in Slots : heap[s].live => Len(heap[s].data_) = heap[s].rows_ * heap[s].cols_)
    /\ [][\A s \in Slots :
            /\ heap[s].live =>
                 /\ heap'[s].live
                 /\ heap'[s].rows_ = heap[s].rows_
                 /\ heap'[s].cols_ = heap[s].cols_
            /\ (last'.op = "set" /\ s # last'.a) => heap'[s] = heap[s]]_vars

\* C8: multiply(A, B) leaves A and B unchanged, whether it returns or throws,
\* also when A and B are the same matrix.
C8_OperandsUnchanged ==
    [][last'.op = "multiply" =>
         /\ heap'[last'.a] = heap[last'.a]
         /\ heap'[last'.b] = heap[last'.b]]_vars

\* A non-zero 2x2 matrix was multiplied with itself.
C8_Witness ==
    /\ last.op = "multiply"
    /\ last.outcome = "ok"
    /\ last.a = last.b
    /\ heap[last.a].rows_ = 2
    /\ \E x \in 1 .. 4 : last.result.data_[x] # 0

\* C9: multiply(A, I) equals A for the identity I of size A.cols(), and
\* multiply(I', A) equals A for the identity I' of size A.rows().
C9_Identity ==
    last.op = "multiply" =>
        LET A == heap[last.a]
            B == heap[last.b]
        IN  /\ (IsIdentity(B) /\ B.rows_ = A.cols_) =>
                  (last.outcome = "ok" /\ SameMatrix(last.result, A))
            /\ (IsIdentity(A) /\ A.cols_ = B.rows_) =>
                  (last.outcome = "ok" /\ SameMatrix(last.result, B))

\* A 2x2 matrix that is not itself an identity was multiplied by the 2x2 identity.
C9_Witness ==
    /\ last.op = "multiply"
    /\ last.outcome = "ok"
    /\ heap[last.b] = Mat22(1, 0, 0, 1)
    /\ heap[last.a].cols_ = 2
    /\ heap[last.a].rows_ = 2
    /\ heap[last.a].data_[2] = 1

\* C10: for r < rows and c < cols, set(r, c, v) makes get(r, c) return v,
\* leaves get(r', c') of every other in-range pair as it was, and leaves rows
\* and cols unchanged.
C10_SetOneElement ==
    [][(last'.op = "set" /\ InRange(heap[last'.a], last'.r, last'.c)) =>
         LET M == heap[last'.a]
             N == heap'[last'.a]
         IN  /\ last'.outcome = "ok"
             /\ ReadAt(N, last'.r, last'.c) = last'.v
             /\ N.rows_ = M.rows_
             /\ N.cols_ = M.cols_
             /\ Len(N.data_) = Len(M.data_)
             /\ \A r \in 0 .. M.rows_ - 1, c \in 0 .. M.cols_ - 1 :
                  <<r, c>> # <<last'.r, last'.c>> => ReadAt(N, r, c) = ReadAt(M, r, c)]_vars

\* Element (1, 0) of a 2x2 matrix was set to 1 while the others are 0.
C10_Witness ==
    /\ last.op = "set"
    /\ last.outcome = "ok"
    /\ last.r = 1
    /\ last.c = 0
    /\ last.v = 1
    /\ heap[last.a].rows_ = 2
    /\ heap[last.a].data_ = <<0, 0, 1, 0>>

====
